---- MODULE Spec2Model ----
(***************************************************************************)
(* Model of poseidon2-air/src/vectorized.rs: the vectorized Poseidon2 AIR. *)
(*                                                                         *)
(* A trace row is a flat slice of field elements.  The Borrow / BorrowMut  *)
(* impls reinterpret it (slice::align_to) as one VectorizedPoseidon2Cols,  *)
(* an array of VECTOR_LEN Poseidon2Cols records; VectorizedPoseidon2Air    *)
(* wraps one Poseidon2Air and evaluates it once per record.                *)
(*                                                                         *)
(* Offsets into the row are 0-based as in the source; TLA+ sequences are   *)
(* 1-based, so flat offset o is row[o + 1].  The code never inspects a     *)
(* field element (it is generic in T), so the elements are drawn from the  *)
(* two-element field {0, 1}: two values are enough to tell positions apart.*)
(*                                                                         *)
(* Poseidon2Air, Poseidon2Cols, crate::air::eval and the AirBuilder are    *)
(* not part of vectorized.rs; they are modelled from the specification     *)
(* (sections 2, 4.2 and 6) and marked so in the comments below.            *)
(***************************************************************************)
EXTENDS Integers, Sequences, FiniteSets, TLC

\* Bounds of the model.
MaxVectorLen == 2
MaxW == 2
MaxSeed == 1

VARIABLES
    debug_assertions,  \* build configuration: TRUE = debug, FALSE = release
    VECTOR_LEN,        \* const generic VECTOR_LEN
    W,                 \* number of T elements in one Poseidon2Cols (inner width)
    air,               \* the VectorizedPoseidon2Air (its field `air`), or NoAir
    row,               \* the local trace row, a flat slice of field elements
    pc,                \* position of the caller: idle, width, eval, done, mut, panicked
    i,                 \* number of records the loop of eval has consumed
    local,             \* the view held by eval (`local`) or by a borrow_mut caller
    builder,           \* the builder's constraint accumulator
    calls,             \* log of the invocations of crate::air::eval (ghost)
    ret,               \* value returned by width() (0: no call has returned)
    prev               \* snapshot of the last completed eval on a well-formed row (ghost)

vars == <<debug_assertions, VECTOR_LEN, W, air, row, pc, i, local, builder, calls, ret, prev>>

F == {0, 1}
Seeds == 0..MaxSeed

NoAir == [built |-> FALSE, seed |-> 0, rc |-> <<>>, rngAfter |-> 0]
NoView == [ok |-> FALSE, cols |-> <<>>]
NoPrev == [valid |-> FALSE, row |-> <<>>, slots |-> <<>>, builder |-> <<>>]

RowsOfLen(n) == [1..n -> F]

(***************************************************************************)
(* The randomness source and the inner Poseidon2Air (from the spec).       *)
(***************************************************************************)
\* One step of the generator and the element it yields.
RngNext(s) == (5 * s + 3) % 8
Sample(s) == s % 2

\* Poseidon2Air::new_from_rng: one configuration of round constants, drawn
\* from the source; returns the configuration and the state the source is left in.
Poseidon2Air_new_from_rng(rng) ==
    [rc |-> <<Sample(rng), Sample(RngNext(rng))>>,
     rng |-> RngNext(RngNext(rng))]

\* Poseidon2Air::width: the number of columns of one Poseidon2Cols.
Poseidon2Air_width == W

\* size_of::<Poseidon2Cols<T, ..>>() in units of size_of::<T>().
SizeOfPoseidon2Cols == W

\* crate::air::eval(air, builder, perm): the identities one permutation
\* instance asserts, as a function of the constants and of the W values of
\* its own record.  Each entry is the value handed to builder.assert_zero.
InnerEval(rc, vals) ==
    [j \in 1..Len(vals) |-> (vals[j] + rc[((j - 1) % 2) + 1]) % 2]

\* AirBuilder: the accumulator appends what is asserted; an asserted value
\* other than zero is a violated constraint.
AssertAll(b, out) == b \o out
Violated(c) == c # 0

\* Poseidon2Cols borrowed from a flat row of W elements: field j is element j.
Poseidon2Cols(base) == [j \in 1..SizeOfPoseidon2Cols |-> base + (j - 1)]

(***************************************************************************)
(* The layout and the view conversion (vectorized.rs lines 13-128).        *)
(***************************************************************************)
\* Mutants of the layout: a transposed (structure-of-arrays) layout, a
\* layout whose records all alias record 0, and one whose stride is short.
ColsTransposed(base) ==
    [s \in 1..VECTOR_LEN |->
        [j \in 1..SizeOfPoseidon2Cols |-> base + (j - 1) * VECTOR_LEN + (s - 1)]]
ColsAliased(base) ==
    [s \in 1..VECTOR_LEN |-> Poseidon2Cols(base)]
ColsShortStride(base) ==
    [s \in 1..VECTOR_LEN |->
        [j \in 1..SizeOfPoseidon2Cols |->
            IF s = 1 THEN base + (j - 1)
                     ELSE base + (s - 1) * SizeOfPoseidon2Cols + (j - 1) - 1]]

\* #[repr(C)] struct VectorizedPoseidon2Cols { cols: [Poseidon2Cols; VECTOR_LEN] }
\* placed at flat offset `base`: record s starts s * size_of(Poseidon2Cols) in.
\* The view is a reference: it holds offsets into the row, not copies.
VectorizedPoseidon2Cols(base) ==
    [s \in 1..VECTOR_LEN |-> Poseidon2Cols(base + (s - 1) * SizeOfPoseidon2Cols)]

\* size_of::<VectorizedPoseidon2Cols<T, ..>>() in units of size_of::<T>().
SizeOfVectorizedPoseidon2Cols == SizeOfPoseidon2Cols * VECTOR_LEN

\* <[T]>::align_to::<VectorizedPoseidon2Cols<T, ..>>() on a slice of `len`
\* elements.  The record is made of T alone, so it has T's alignment and the
\* aligned part starts at offset 0; the middle takes as many whole records
\* as fit and the suffix takes the rest.  shorts[k] is the offset of record k.
AlignTo(len) ==
    LET offset == 0
        usLen == (len - offset) \div SizeOfVectorizedPoseidon2Cols
        tsLen == (len - offset) % SizeOfVectorizedPoseidon2Cols
    IN  [prefix |-> [k \in 1..offset |-> k - 1],
         shorts |-> [k \in 1..usLen |->
                        offset + (k - 1) * SizeOfVectorizedPoseidon2Cols],
         suffix |-> [k \in 1..tsLen |->
                        offset + usLen * SizeOfVectorizedPoseidon2Cols + (k - 1)]]

\* Borrow::borrow for [T].  The three debug_assert!s exist only when
\* debug_assertions is on; `&shorts[0]` is bounds-checked in every build.
\* ok = FALSE stands for the panic.
Borrow(len) ==
    LET a == AlignTo(len)
    IN  IF debug_assertions /\ a.prefix # <<>> THEN NoView
        ELSE IF debug_assertions /\ a.suffix # <<>> THEN NoView
        ELSE IF debug_assertions /\ Len(a.shorts) # 1 THEN NoView
        ELSE IF Len(a.shorts) = 0 THEN NoView
        ELSE [ok |-> TRUE, cols |-> VectorizedPoseidon2Cols(a.shorts[1])]

\* BorrowMut::borrow_mut for [T]: the same steps on align_to_mut.
BorrowMut(len) ==
    LET a == AlignTo(len)
    IN  IF debug_assertions /\ a.prefix # <<>> THEN NoView
        ELSE IF debug_assertions /\ a.suffix # <<>> THEN NoView
        ELSE IF debug_assertions /\ Len(a.shorts) # 1 THEN NoView
        ELSE IF Len(a.shorts) = 0 THEN NoView
        ELSE [ok |-> TRUE, cols |-> VectorizedPoseidon2Cols(a.shorts[1])]

\* Reading through a record of the view: the values at its offsets.
Deref(perm) == [j \in 1..Len(perm) |-> row[perm[j] + 1]]

(***************************************************************************)
(* VectorizedPoseidon2Air (vectorized.rs lines 130-232).                   *)
(***************************************************************************)
\* VectorizedPoseidon2Air::new_from_rng: Self { air: Poseidon2Air::new_from_rng(rng) }.
\* seed and rngAfter record the state of the source before and after (ghost).
new_from_rng(rng) ==
    LET inner == Poseidon2Air_new_from_rng(rng)
    IN  [built |-> TRUE, seed |-> rng, rc |-> inner.rc, rngAfter |-> inner.rng]

\* Mutant of width: the sum instead of the product.
WidthSum == Poseidon2Air_width + VECTOR_LEN

\* BaseAir::width: self.air.width() * VECTOR_LEN.
width == Poseidon2Air_width * VECTOR_LEN

\* Mutants of the loop: it stops one record early; it stops at the first
\* violated constraint.
LoopStopsEarly == i < VECTOR_LEN - 1
LoopShortCircuits ==
    i < VECTOR_LEN /\ \A k \in 1..Len(builder) : ~Violated(builder[k])

\* `for perm in &local.cols`: the iterator has a next record.
LoopHasNext == i < VECTOR_LEN

\* Mutant of the iteration: the records are visited last to first.
PermDescending == local.cols[VECTOR_LEN - i]

\* `for perm in &local.cols`: the record the iterator yields next.
Perm == local.cols[i + 1]

\* Mutant of the call: the constants are rotated for every odd record.
AirPerSlot == IF i % 2 = 1 THEN <<air.rc[2], air.rc[1]>> ELSE air.rc

\* `&self.air`: the constants handed to every invocation.
SelfAir == air.rc

\* Mutant of the borrow of the row: the record just consumed is zeroed.
RowZeroed == [k \in 1..Len(row) |-> IF k - 1 \in {Perm[j] : j \in 1..Len(Perm)} THEN 0 ELSE row[k]]

\* `main.row_slice(0)` borrowed through Borrow (a shared reference): one
\* iteration of the loop leaves the row as it is.
RowAfterStep == row

(***************************************************************************)
(* Ghost bookkeeping for the two-run claims.                               *)
(***************************************************************************)
\* The flat offsets of slot s (0-based): [s * W, (s + 1) * W).
SlotRange(s) == (s * W)..((s + 1) * W - 1)

\* r1 and r2 have the same length and agree everywhere outside slot s.
DiffersOnlyInSlot(r1, r2, s) ==
    /\ Len(r1) = Len(r2)
    /\ \A k \in 1..Len(r1) : (k - 1) \notin SlotRange(s) => r1[k] = r2[k]

\* The snapshot is kept while the row is within one slot of the row it was
\* taken on; further away it has nothing to say and is dropped.
PrevAfterWrite(newRow) ==
    IF prev.valid /\ \E s \in 0..(VECTOR_LEN - 1) : DiffersOnlyInSlot(prev.row, newRow, s)
    THEN prev ELSE NoPrev

(***************************************************************************)
(* The state machine.                                                      *)
(***************************************************************************)
Init ==
    /\ debug_assertions \in BOOLEAN
    /\ VECTOR_LEN \in 1..MaxVectorLen
    /\ W \in 1..MaxW
    /\ row \in RowsOfLen(W * VECTOR_LEN - 1) \cup RowsOfLen(W * VECTOR_LEN)
                \cup RowsOfLen(W * VECTOR_LEN + 1)
    /\ air = NoAir
    /\ pc = "idle"
    /\ i = 0
    /\ local = NoView
    /\ builder = <<>>
    /\ calls = <<>>
    /\ ret = 0
    /\ prev = NoPrev

\* VectorizedPoseidon2Air::new_from_rng on a source the caller seeded with s.
NewFromRng(s) ==
    /\ pc = "idle"
    /\ air' = new_from_rng(s)
    /\ prev' = NoPrev
    /\ UNCHANGED <<debug_assertions, VECTOR_LEN, W, row, pc, i, local, builder, calls, ret>>

\* BaseAir::width.
Width ==
    /\ pc = "idle"
    /\ air.built
    /\ ret' = width
    /\ pc' = "width"
    /\ UNCHANGED <<debug_assertions, VECTOR_LEN, W, air, row, i, local, builder, calls, prev>>

\* Air::eval up to the loop: builder.main(), row_slice(0), borrow.  The
\* caller hands in a fresh builder.
EvalCall ==
    /\ pc = "idle"
    /\ air.built
    /\ local' = Borrow(Len(row))
    /\ pc' = IF local'.ok THEN "eval" ELSE "panicked"
    /\ i' = 0
    /\ builder' = <<>>
    /\ calls' = <<>>
    /\ UNCHANGED <<debug_assertions, VECTOR_LEN, W, air, row, ret, prev>>

\* One iteration of `for perm in &local.cols { eval(&self.air, builder, perm) }`.
EvalStep ==
    /\ pc = "eval"
    /\ LoopHasNext
    /\ LET out == InnerEval(SelfAir, Deref(Perm))
       IN  /\ builder' = AssertAll(builder, out)
           /\ calls' = Append(calls, [slot |-> i, perm |-> Perm, rc |-> SelfAir, out |-> out])
    /\ row' = RowAfterStep
    /\ i' = i + 1
    /\ UNCHANGED <<debug_assertions, VECTOR_LEN, W, air, pc, local, ret, prev>>

\* The iterator is exhausted: eval returns ().
EvalReturn ==
    /\ pc = "eval"
    /\ ~LoopHasNext
    /\ pc' = "done"
    /\ UNCHANGED <<debug_assertions, VECTOR_LEN, W, air, row, i, local, builder, calls, ret, prev>>

\* The caller takes the result and drops the builder and the view.
Finish ==
    /\ pc \in {"done", "width"}
    /\ pc' = "idle"
    /\ prev' = IF pc = "width" THEN prev
               ELSE IF Len(row) = W * VECTOR_LEN
               THEN [valid |-> TRUE, row |-> row,
                     slots |-> [k \in 1..Len(calls) |-> calls[k].out],
                     builder |-> builder]
               ELSE NoPrev
    /\ i' = 0
    /\ local' = NoView
    /\ builder' = <<>>
    /\ calls' = <<>>
    /\ ret' = 0
    /\ UNCHANGED <<debug_assertions, VECTOR_LEN, W, air, row>>

\* A panic unwinds to the caller.
Recover ==
    /\ pc = "panicked"
    /\ pc' = "idle"
    /\ i' = 0
    /\ local' = NoView
    /\ builder' = <<>>
    /\ calls' = <<>>
    /\ UNCHANGED <<debug_assertions, VECTOR_LEN, W, air, row, ret, prev>>

\* A caller (trace generation) takes the mutable view of the row.
BorrowMutCall ==
    /\ pc = "idle"
    /\ local' = BorrowMut(Len(row))
    /\ pc' = IF local'.ok THEN "mut" ELSE "panicked"
    /\ UNCHANGED <<debug_assertions, VECTOR_LEN, W, air, row, i, builder, calls, ret, prev>>

\* It writes v to field j of record s through the view and drops the view.
WriteSlot(s, j, v) ==
    /\ pc = "mut"
    /\ row' = [row EXCEPT ![local.cols[s + 1][j + 1] + 1] = v]
    /\ prev' = PrevAfterWrite(row')
    /\ pc' = "idle"
    /\ local' = NoView
    /\ UNCHANGED <<debug_assertions, VECTOR_LEN, W, air, i, builder, calls, ret>>

Next ==
    \/ \E s \in Seeds : NewFromRng(s)
    \/ Width
    \/ EvalCall
    \/ EvalStep
    \/ EvalReturn
    \/ Finish
    \/ Recover
    \/ BorrowMutCall
    \/ \E s \in 0..(VECTOR_LEN - 1), j \in 0..(W - 1), v \in F : WriteSlot(s, j, v)

Spec == Init /\ [][Next]_vars

(***************************************************************************)
(* Properties.                                                             *)
(***************************************************************************)
WellFormed == Len(row) = W * VECTOR_LEN
ViewHeld == pc \in {"eval", "done", "mut"}

RECURSIVE FlattenOffsets(_)
FlattenOffsets(cols) ==
    IF cols = <<>> THEN <<>> ELSE Head(cols) \o FlattenOffsets(Tail(cols))

RECURSIVE FlattenValues(_)
FlattenValues(cols) ==
    IF cols = <<>> THEN <<>> ELSE Deref(Head(cols)) \o FlattenValues(Tail(cols))

RECURSIVE ConcatOut(_)
ConcatOut(cs) ==
    IF cs = <<>> THEN <<>> ELSE Head(cs).out \o ConcatOut(Tail(cs))

\* Poseidon2Air evaluated directly on the row with a fresh builder: the row
\* is borrowed as one Poseidon2Cols and crate::air::eval runs once.
Poseidon2Air_eval(rc) == AssertAll(<<>>, InnerEval(rc, Deref(Poseidon2Cols(0))))

\* C1: width() returns the inner width times VECTOR_LEN, and a row has that
\* length exactly when align_to yields one record with empty prefix and suffix.
C1_WidthIsViewLength ==
    pc = "width" =>
        /\ ret = Poseidon2Air_width * VECTOR_LEN
        /\ LET a == AlignTo(Len(row))
           IN  (a.prefix = <<>> /\ a.suffix = <<>> /\ Len(a.shorts) = 1) <=> (Len(row) = ret)
C1_Witness ==
    pc = "width" /\ VECTOR_LEN = 2 /\ W = 2 /\ ret = 4 /\ Len(row) = 4

\* C2: on a row of length VECTOR_LEN * W the view held by eval (borrow) or by
\* a writer (borrow_mut) has VECTOR_LEN slots, and element j of slot s is flat
\* element s * W + j.
C2_SlotMajorLayout ==
    (ViewHeld /\ WellFormed) =>
        /\ local.ok
        /\ Len(local.cols) = VECTOR_LEN
        /\ \A s \in 0..(VECTOR_LEN - 1) :
              /\ Len(local.cols[s + 1]) = W
              /\ \A j \in 0..(W - 1) :
                    /\ local.cols[s + 1][j + 1] = s * W + j
                    /\ Deref(local.cols[s + 1])[j + 1] = row[s * W + j + 1]
C2_Witness ==
    pc = "mut" /\ prev.valid /\ WellFormed /\ VECTOR_LEN = 2 /\ W = 2

\* C3: on a row of length VECTOR_LEN * W, flattening the slots of the view in
\* slot order gives back the row: every offset once, in order, every value kept.
C3_RoundTrip ==
    (ViewHeld /\ WellFormed) =>
        /\ FlattenOffsets(local.cols) = [k \in 1..Len(row) |-> k - 1]
        /\ FlattenValues(local.cols) = row
C3_Witness ==
    pc = "eval" /\ WellFormed /\ VECTOR_LEN = 2 /\ W = 2 /\ row = <<0, 1, 1, 0>>

\* C4: a row of length VECTOR_LEN * W - 1 or VECTOR_LEN * W + 1 is never
\* accepted by borrow / borrow_mut, in any build configuration.
C4_MalformedRejected ==
    ~(Len(row) \in {W * VECTOR_LEN - 1, W * VECTOR_LEN + 1} /\ ViewHeld)

\* C5: eval on a well-formed row invokes the inner routine once per slot, in
\* ascending slot order, the k-th invocation on slot k's own W offsets, all of
\* them appending to the one builder; when it returns there were VECTOR_LEN.
C5_AscendingInvocations ==
    (pc \in {"eval", "done"} /\ WellFormed) =>
        /\ Len(calls) = i
        /\ pc = "done" => Len(calls) = VECTOR_LEN
        /\ \A k \in 1..Len(calls) :
              /\ calls[k].slot = k - 1
              /\ calls[k].perm = [j \in 1..W |-> (k - 1) * W + (j - 1)]
        /\ builder = ConcatOut(calls)
C5_Witness ==
    pc = "done" /\ WellFormed /\ VECTOR_LEN = 2 /\ W = 2 /\ Len(calls) = 2

\* C6: with VECTOR_LEN = 1, eval leaves in the builder the same sequence of
\* constraints as the inner definition evaluated once on the same row.
C6_DegenerateEqualsInner ==
    (pc = "done" /\ WellFormed /\ VECTOR_LEN = 1) => builder = Poseidon2Air_eval(air.rc)
C6_Witness ==
    pc = "done" /\ WellFormed /\ VECTOR_LEN = 1 /\ W = 2 /\ Len(builder) = 2

\* C7: every invocation reads offsets of its own slot only, and when the row
\* differs from the previously evaluated row only inside slot s, every other
\* slot contributes the same constraints as before.
C7_SlotIndependence ==
    (pc = "done" /\ WellFormed) =>
        /\ \A k \in 1..Len(calls) :
              \A j \in 1..Len(calls[k].perm) : calls[k].perm[j] \in SlotRange(k - 1)
        /\ prev.valid =>
              \A s \in 0..(VECTOR_LEN - 1) :
                  DiffersOnlyInSlot(prev.row, row, s) =>
                      \A t \in 0..(VECTOR_LEN - 1) :
                          t # s => calls[t + 1].out = prev.slots[t + 1]
C7_Witness ==
    /\ pc = "done" /\ WellFormed /\ VECTOR_LEN = 2 /\ W = 2
    /\ prev.valid /\ prev.row # row
    /\ calls[1].out # prev.slots[1]

\* C8: the configuration is the one the inner constructor draws, the source
\* is advanced by that one draw, every invocation of an eval gets that same
\* configuration, and constructing again from the same seeded state gives
\* the same configuration.
C8_State ==
    /\ air.built =>
          /\ air.rc = Poseidon2Air_new_from_rng(air.seed).rc
          /\ air.rngAfter = Poseidon2Air_new_from_rng(air.seed).rng
    /\ \A k \in 1..Len(calls) : calls[k].rc = air.rc
C8_Step ==
    (air.built /\ air'.built /\ air'.seed = air.seed) => air'.rc = air.rc
C8_OneSharedConfiguration == []C8_State /\ [][C8_Step]_vars
C8_Witness ==
    /\ pc = "done" /\ VECTOR_LEN = 2 /\ Len(calls) = 2
    /\ air.built /\ air.rc[1] # air.rc[2]

\* C9: the loop leaves only when every slot has been consumed, whatever the
\* builder holds; eval does not fail once the loop has started.
C9_State == pc = "done" => (i = VECTOR_LEN /\ Len(calls) = VECTOR_LEN)
C9_Step ==
    pc = "eval" =>
        \/ pc' = "eval" /\ i' = i + 1 /\ Len(calls') = Len(calls) + 1
        \/ pc' = "done" /\ i = VECTOR_LEN
C9_NoShortCircuit == []C9_State /\ [][C9_Step]_vars
C9_Witness ==
    /\ pc = "done" /\ VECTOR_LEN = 2 /\ Len(calls) = 2
    /\ \E j \in 1..W : Violated(calls[1].out[j])

\* C10: no step of eval changes the row or the configuration, and an eval
\* of the same row in a fresh builder gives the constraints it gave before.
C10_State ==
    (pc = "done" /\ prev.valid /\ prev.row = row) => builder = prev.builder
C10_Step ==
    (EvalCall \/ EvalStep \/ EvalReturn) => (row' = row /\ air' = air)
C10_EvalReadsOnly == []C10_State /\ [][C10_Step]_vars
C10_Witness ==
    /\ pc = "done" /\ VECTOR_LEN = 2 /\ W = 2
    /\ prev.valid /\ prev.row = row /\ row = <<1, 0, 0, 1>>

====
